---- MODULE Spec2Model ----
(***************************************************************************)
(* Model of optimal_ollama.py: the context-size sweep of run_benchmark,    *)
(* the stop-criteria chain, the log telemetry reader and the parameter     *)
(* prompts of setup_benchmark.                                             *)
(*                                                                         *)
(* Number representation.  Python floats are modelled as exact integers    *)
(* in TENTHS (a threshold of 90.0 is 900, 12.0 GiB is 120); quotients      *)
(* (gpu_percent, eval_tps, prompt_tps) are exact rationals [n, d] whose    *)
(* value n/d is in tenths.  Server durations are in units of 10^8 ns, so   *)
(* that x / 1e9 seconds is x tenths of a second.  Context sizes and token  *)
(* counts are plain integers.  Formatting (f"{x:.1f}", f"{x:.2f}",         *)
(* str(float)) is computed digit by digit into real strings.               *)
(***************************************************************************)
EXTENDS Integers, Sequences, FiniteSets, TLC

VARIABLES pc, config, system, mi, current_ctx, steps, data, sample, logread, csv, trace, console

vars == <<pc, config, system, mi, current_ctx, steps, data, sample, logread, csv, trace, console>>

(***************************************************************************)
(* Bounds                                                                  *)
(***************************************************************************)
\* cap on the iterations of one model's while loop (the loop is unbounded
\* when step_size <= 0)
MaxSteps == 3

\* longest window of log lines of the telemetry specification
MaxLines == 3

(***************************************************************************)
(* Text and number helpers                                                 *)
(***************************************************************************)
Digits == {"0", "1", "2", "3", "4", "5", "6", "7", "8", "9"}

DigitVal(c) ==
    CASE c = "0" -> 0 [] c = "1" -> 1 [] c = "2" -> 2 [] c = "3" -> 3
      [] c = "4" -> 4 [] c = "5" -> 5 [] c = "6" -> 6 [] c = "7" -> 7
      [] c = "8" -> 8 [] c = "9" -> 9

RECURSIVE DigitsVal(_)
\* value of a non-empty sequence of decimal digits
DigitsVal(s) ==
    IF Len(s) = 0 THEN 0
    ELSE 10 * DigitsVal(SubSeq(s, 1, Len(s) - 1)) + DigitVal(s[Len(s)])

AllDigits(s) == Len(s) > 0 /\ \A i \in 1..Len(s) : s[i] \in Digits

\* int(current): an optional sign followed by one or more digits; anything
\* else raises ValueError.  A text is a sequence of one-character strings.
IntOk(s) ==
    IF Len(s) > 0 /\ s[1] \in {"-", "+"} THEN AllDigits(Tail(s)) ELSE AllDigits(s)

IntOf(s) ==
    IF s[1] = "-" THEN 0 - DigitsVal(Tail(s))
    ELSE IF s[1] = "+" THEN DigitsVal(Tail(s))
    ELSE DigitsVal(s)

\* validate_int(answers, current): True iff int(current) does not raise
validate_int(current) == IntOk(current)

Max2(a, b) == IF a >= b THEN a ELSE b

\* n/d rounded to the nearest integer, ties to even (n >= 0, d > 0)
RoundHalfEven(n, d) ==
    LET q == n \div d
        r == n % d
    IN  IF 2 * r < d THEN q
        ELSE IF 2 * r > d THEN q + 1
        ELSE IF q % 2 = 0 THEN q ELSE q + 1

\* a quotient n/d (value in tenths)
Rat(n, d) == [n |-> n, d |-> d]

RatLess(a, b) == a.n * b.d < b.n * a.d

\* f"{x:.1f}" of a value given in tenths
Fmt1(t) == ToString(t \div 10) \o "." \o ToString(t % 10)

\* f"{x:.2f}" of a value given in hundredths
Fmt2(h) ==
    ToString(h \div 100) \o "." \o ToString((h \div 10) % 10) \o ToString(h % 10)

\* f"{q:.1f}" and f"{q:.2f}" of a quotient in tenths
FmtRat1(q) == Fmt1(RoundHalfEven(q.n, q.d))

FmtRat2(q) == Fmt2(RoundHalfEven(10 * q.n, q.d))

\* str(x) of a float with one decimal: 90.0 -> "90.0", 999.0 -> "999.0"
FloatStr(t) == Fmt1(t)

(***************************************************************************)
(* Log reader                                                              *)
(*                                                                         *)
(* A log source is [readable, lines].  A line is [match, size, vram]:      *)
(* match says whether the runner.size / runner.vram pattern is found in    *)
(* the line, size and vram are the texts captured by the two ([\d\.]+)     *)
(* groups (sequences of one-character strings).                            *)
(***************************************************************************)
FloatChars == Digits \cup {"."}

DotCount(s) == Cardinality({i \in 1..Len(s) : s[i] = "."})

DotPos(s) == CHOOSE i \in 1..Len(s) : s[i] = "."

\* float(text) on a text of digits and dots: raises ValueError unless there
\* is at most one dot and at least one digit
FloatOk(s) ==
    /\ Len(s) > 0
    /\ \A i \in 1..Len(s) : s[i] \in FloatChars
    /\ DotCount(s) <= 1
    /\ \E i \in 1..Len(s) : s[i] \in Digits

\* float(text) in tenths, for texts with at most one fractional digit
FloatTenths(s) ==
    IF DotCount(s) = 0 THEN 10 * DigitsVal(s)
    ELSE LET p == DotPos(s)
             ip == SubSeq(s, 1, p - 1)
             fp == SubSeq(s, p + 1, Len(s))
         IN  10 * DigitsVal(ip) + (IF Len(fp) = 0 THEN 0 ELSE DigitVal(fp[1]))

\* variant: the lines are returned although reading failed
read_log_lines_NoCatch(cfg, log) ==
    IF cfg.log_mode \in {"docker", "file"} THEN log.lines ELSE << >>

\* read_log_lines(config): the lines of the tail, [] when the mode is
\* "none" (content stays "") or the source cannot be read
read_log_lines(cfg, log) ==
    IF cfg.log_mode = "docker" THEN (IF log.readable THEN log.lines ELSE << >>)
    ELSE IF cfg.log_mode = "file" THEN (IF log.readable THEN log.lines ELSE << >>)
    ELSE << >>

ZeroSample == [size |-> 0, vram |-> 0, percent |-> Rat(0, 1)]

\* variant: the factor 100 is forgotten in the percentage
SampleOfLine_Fraction(line) ==
    IF FloatOk(line.size) /\ FloatOk(line.vram)
    THEN LET size == FloatTenths(line.size)
             vram == FloatTenths(line.vram)
         IN  [size |-> size, vram |-> vram,
              percent |-> IF size > 0 THEN Rat(10 * vram, size) ELSE Rat(0, 1)]
    ELSE ZeroSample

\* the body of "if match:" : float() of both groups, then the percentage
SampleOfLine(line) ==
    IF FloatOk(line.size) /\ FloatOk(line.vram)
    THEN LET size == FloatTenths(line.size)
             vram == FloatTenths(line.vram)
         IN  [size |-> size, vram |-> vram,
              percent |-> IF size > 0 THEN Rat(1000 * vram, size) ELSE Rat(0, 1)]
    ELSE ZeroSample   \* ValueError caught by the outer except

\* variant: the lines are scanned from the oldest to the most recent
ScanReversed_OldestFirst(lines, i) ==
    LET idx == {j \in 1..i : lines[j].match}
    IN  IF idx = {} THEN ZeroSample
        ELSE SampleOfLine(lines[CHOOSE j \in idx : \A k \in idx : j <= k])

RECURSIVE ScanReversed(_, _)
\* for line in reversed(lines): return at the first line that matches
ScanReversed(lines, i) ==
    IF i = 0 THEN ZeroSample
    ELSE IF lines[i].match THEN SampleOfLine(lines[i])
    ELSE ScanReversed(lines, i - 1)

get_gpu_stats_from_logs(cfg, log) ==
    LET lines == read_log_lines(cfg, log)
    IN  ScanReversed(lines, Len(lines))

\* how read_log_lines ended: "skipped" when the mode is "none" (nothing is
\* read), "failed" when the source is missing or reading raised (return []),
\* "ok" otherwise
ReadOutcome(cfg, log) ==
    IF cfg.log_mode \in {"docker", "file"}
    THEN (IF log.readable THEN "ok" ELSE "failed")
    ELSE "skipped"

\* the last call of read_log_lines: its outcome and the lines it returned
LogRead(cfg, log) == [outcome |-> ReadOutcome(cfg, log), lines |-> read_log_lines(cfg, log)]

\* before the first call
NotRead == [outcome |-> "not_read", lines |-> << >>]

(***************************************************************************)
(* Step metrics and stop criteria (run_benchmark, the 200 branch)          *)
(***************************************************************************)
\* data.get(field, 0) over the JSON body; durations in units of 10^8 ns
Metrics(d) ==
    [total_dur  |-> d.total_duration,
     eval_tps   |-> IF d.eval_duration = 0
                    THEN Rat(10 * d.eval_count, 1)
                    ELSE Rat(100 * d.eval_count, d.eval_duration),
     prompt_tps |-> IF d.prompt_eval_duration = 0
                    THEN Rat(10 * d.prompt_eval_count, 1)
                    ELSE Rat(100 * d.prompt_eval_count, d.prompt_eval_duration),
     actual_ctx |-> d.prompt_eval_count]

sys_ram_used(smp) == Max2(0, smp.size - smp.vram)

\* variant: the Darwin case is forgotten
ignore_gpu_check_NoDarwin(cfg, sys, smp) == cfg.log_mode = "none"

ignore_gpu_check(cfg, sys, smp) ==
    (cfg.log_mode = "none") \/ (smp.percent.n = 0 /\ sys = "Darwin")

\* the six conditions of the if / elif chain
\* variant: exactly 99% of the target counts as truncated
CondTruncated_Inclusive(ctx, m) == 100 * m.actual_ctx <= 99 * ctx

CondTruncated(ctx, m) == 100 * m.actual_ctx < 99 * ctx

\* variant: the tolerance is added to the threshold
CondGpu_TolerancePlus(cfg, sys, smp) ==
    /\ ~ignore_gpu_check(cfg, sys, smp)
    /\ RatLess(smp.percent, Rat(cfg.min_gpu_percent + 1, 1))

CondGpu(cfg, sys, smp) ==
    /\ ~ignore_gpu_check(cfg, sys, smp)
    /\ RatLess(smp.percent, Rat(cfg.min_gpu_percent - 1, 1))

\* variant: VRAM is compared with the RAM limit
CondVram_WrongLimit(cfg, smp) == smp.vram > cfg.max_sys_ram_gb

CondVram(cfg, smp) == smp.vram > cfg.max_vram_budget_gb

CondRam(cfg, smp) == sys_ram_used(smp) > cfg.max_sys_ram_gb

CondSpeed(cfg, m) == RatLess(m.eval_tps, Rat(cfg.min_eval_tps, 1))

CondTime(cfg, m) == m.total_dur > cfg.max_duration_seconds

Verdict(st, reason, stop) == [status |-> st, stop_reason |-> reason, should_stop |-> stop]

\* variant: the GPU floor is tested before truncation
Evaluate_GpuFirst(cfg, sys, ctx, m, smp) ==
    IF CondGpu(cfg, sys, smp)
    THEN Verdict("FAIL_GPU_%",
                 "GPU " \o FmtRat1(smp.percent) \o "% < "
                     \o FloatStr(cfg.min_gpu_percent) \o "%", TRUE)
    ELSE IF CondTruncated(ctx, m)
    THEN Verdict("TRUNCATED (" \o ToString(m.actual_ctx) \o ")",
                 "Context Limit Reached", TRUE)
    ELSE IF CondVram(cfg, smp)
    THEN Verdict("FAIL_VRAM_BUDGET", "VRAM", TRUE)
    ELSE IF CondRam(cfg, smp)
    THEN Verdict("FAIL_RAM", "RAM", TRUE)
    ELSE IF CondSpeed(cfg, m)
    THEN Verdict("FAIL_SPEED", "Speed", TRUE)
    ELSE IF CondTime(cfg, m)
    THEN Verdict("FAIL_TIME", "Time", TRUE)
    ELSE Verdict("OK", "", FALSE)

\* status, stop_reason and should_stop of one step
Evaluate(cfg, sys, ctx, m, smp) ==
    IF CondTruncated(ctx, m)
    THEN Verdict("TRUNCATED (" \o ToString(m.actual_ctx) \o ")",
                 "Context Limit Reached", TRUE)
    ELSE IF CondGpu(cfg, sys, smp)
    THEN Verdict("FAIL_GPU_%",
                 "GPU " \o FmtRat1(smp.percent) \o "% < "
                     \o FloatStr(cfg.min_gpu_percent) \o "%", TRUE)
    ELSE IF CondVram(cfg, smp)
    THEN Verdict("FAIL_VRAM_BUDGET",
                 "VRAM " \o Fmt1(smp.vram) \o "GB > Budget "
                     \o FloatStr(cfg.max_vram_budget_gb) \o "GB", TRUE)
    ELSE IF CondRam(cfg, smp)
    THEN Verdict("FAIL_RAM",
                 "RAM " \o Fmt1(sys_ram_used(smp)) \o "GB > Limit "
                     \o FloatStr(cfg.max_sys_ram_gb) \o "GB", TRUE)
    ELSE IF CondSpeed(cfg, m)
    THEN Verdict("FAIL_SPEED",
                 "Speed " \o FmtRat1(m.eval_tps) \o " < "
                     \o FloatStr(cfg.min_eval_tps) \o " t/s", TRUE)
    ELSE IF CondTime(cfg, m)
    THEN Verdict("FAIL_TIME",
                 "Time " \o Fmt1(m.total_dur) \o "s > "
                     \o FloatStr(cfg.max_duration_seconds) \o "s", TRUE)
    ELSE Verdict("OK", "", FALSE)

\* the row appended to the CSV file (timestamp, server version, model digest
\* and the three empty score columns are constant for a run and left out)
Row(model, ctx, m, smp, v) ==
    [Model |-> model, Target_Ctx |-> ctx, Actual_Ctx |-> m.actual_ctx,
     Eval_Speed |-> FmtRat2(m.eval_tps), Prompt_Speed |-> FmtRat2(m.prompt_tps),
     Total_Duration |-> Fmt2(10 * m.total_dur),
     GPU_Percent |-> FmtRat1(smp.percent),
     Sys_RAM_Used_GB |-> Fmt2(10 * sys_ram_used(smp)),
     VRAM_Used_GB |-> Fmt2(10 * smp.vram),
     Status |-> v.status, Stop_Reason |-> v.stop_reason]

(***************************************************************************)
(* Inputs: answers to the prompts, server responses, log sources           *)
(***************************************************************************)
\* answers typed at the integer prompts (start, max, step)
StartTexts == { <<"4","0","9","6">>, <<"1","2","2","8","8">> }

MaxTexts == { <<"8","1","9","2">> }

StepTexts == { <<"4","0","9","6">>, <<"0">>, <<"-","4","0","9","6">>,
               <<"a","b","c">>, <<"4",".","5">>, << >> }

\* answers at the five limit prompts, in tenths: the scenario "all
\* permissive (0, 999.0, 0, 9999.0) except a VRAM budget of 10.0", and the
\* defaults the prompts offer off Darwin (90, 32.0, 24.0, 5.0, 60.0)
Limits(gpu, ram, vram, tps, dur) ==
    [min_gpu_percent |-> gpu, max_sys_ram_gb |-> ram, max_vram_budget_gb |-> vram,
     min_eval_tps |-> tps, max_duration_seconds |-> dur]

VramOnlyLimits == Limits(0, 9990, 100, 0, 99990)

PromptDefaultLimits == Limits(900, 320, 240, 50, 600)

LimitAnswers == {VramOnlyLimits, PromptDefaultLimits}

LogModes == {"docker", "file", "none"}

ModelChoices == { <<"m">>, <<"m", "n">> }

Systems == {"Linux", "Darwin"}

\* JSON bodies of a 200 answer to the measure request for num_ctx = ctx
Data(td, ec, ed, pc_, ped) ==
    [total_duration |-> td, eval_count |-> ec, eval_duration |-> ed,
     prompt_eval_count |-> pc_, prompt_eval_duration |-> ped]

GoodData(ctx) == Data(20, 20, 10, Max2(ctx, 0), 10)

TruncatedData(ctx) == Data(20, 20, 10, (Max2(ctx, 0) * 9) \div 10, 10)

Resp(kind, d) == [kind |-> kind, data |-> d]

EmptyData == Data(0, 0, 0, 0, 0)

\* outcomes of requests.post for the measure request
Responses(ctx) ==
    { Resp("200", GoodData(ctx)), Resp("200", TruncatedData(ctx)),
      Resp("http_error", EmptyData), Resp("timeout", EmptyData) }

Line(match, size, vram) == [match |-> match, size |-> size, vram |-> vram]

OtherLine == Line(FALSE, << >>, << >>)

RunnerLine(size, vram) == Line(TRUE, size, vram)

Log(readable, lines) == [readable |-> readable, lines |-> lines]

\* the log source at the time of a step
Logs ==
    { Log(FALSE, << >>),
      Log(TRUE, << RunnerLine(<<"8",".","0">>, <<"8",".","0">>), OtherLine >>),
      Log(TRUE, << RunnerLine(<<"8",".","0">>, <<"8",".","0">>),
                   RunnerLine(<<"1","2",".","0">>, <<"1","2",".","0">>) >>) }

(***************************************************************************)
(* State                                                                   *)
(***************************************************************************)
\* BenchmarkConfig.__init__
BenchmarkConfig ==
    [selected_models |-> << >>, log_mode |-> "docker",
     start_ctx |-> 4096, max_ctx |-> 65536, step_size |-> 4096,
     min_gpu_percent |-> 0, max_sys_ram_gb |-> 9990, max_vram_budget_gb |-> 9990,
     min_eval_tps |-> 0, max_duration_seconds |-> 99990]

\* an entry of the history of requests and delays
Event(op, model, ctx, result) == [op |-> op, model |-> model, ctx |-> ctx, result |-> result]

Init ==
    /\ pc = "setup"
    /\ config = BenchmarkConfig
    /\ system \in Systems
    /\ mi = 0
    /\ current_ctx = 0
    /\ steps = 0
    /\ data = EmptyData
    /\ sample = ZeroSample
    /\ logread = NotRead
    /\ csv = << >>
    /\ trace = << >>
    /\ console = << >>

(***************************************************************************)
(* setup_benchmark                                                         *)
(***************************************************************************)
\* the server does not answer /api/tags, or lists no model: sys.exit(1)
SetupExit ==
    /\ pc = "setup"
    /\ pc' = "exit"
    /\ UNCHANGED <<config, system, mi, current_ctx, steps, data, sample, logread, csv, trace, console>>

\* the prompts Q1..Q4; an integer prompt accepts a text iff validate_int
\* returns True and asks again otherwise
SetupBenchmark ==
    /\ pc = "setup"
    /\ \E mode \in LogModes, models \in ModelChoices, lim \in LimitAnswers,
          start \in StartTexts, max \in MaxTexts, step \in StepTexts :
          /\ validate_int(start) /\ validate_int(max) /\ validate_int(step)
          /\ config' = [selected_models |-> models, log_mode |-> mode,
                        start_ctx |-> IntOf(start), max_ctx |-> IntOf(max),
                        step_size |-> IntOf(step),
                        min_gpu_percent |-> lim.min_gpu_percent,
                        max_sys_ram_gb |-> lim.max_sys_ram_gb,
                        max_vram_budget_gb |-> lim.max_vram_budget_gb,
                        min_eval_tps |-> lim.min_eval_tps,
                        max_duration_seconds |-> lim.max_duration_seconds]
    /\ pc' = "for"
    /\ UNCHANGED <<system, mi, current_ctx, steps, data, sample, logread, csv, trace, console>>

(***************************************************************************)
(* run_benchmark                                                           *)
(***************************************************************************)
\* for model in config.selected_models: ... current_ctx = config.start_ctx
ForModel ==
    /\ pc = "for"
    /\ IF mi < Len(config.selected_models)
       THEN /\ mi' = mi + 1
            /\ current_ctx' = config.start_ctx
            /\ pc' = "while"
       ELSE /\ pc' = "done"
            /\ UNCHANGED <<mi, current_ctx>>
    /\ UNCHANGED <<config, system, steps, data, sample, logread, csv, trace, console>>

\* variant: only the first iteration of a run unloads
WhileTest_SkipUnload ==
    /\ pc = "while"
    /\ (current_ctx <= config.max_ctx) => steps < MaxSteps
    /\ IF current_ctx <= config.max_ctx
       THEN pc' = (IF steps = 0 THEN "unload" ELSE "preload") /\ steps' = steps + 1
       ELSE pc' = "for" /\ steps' = steps
    /\ UNCHANGED <<config, system, mi, current_ctx, data, sample, logread, csv, trace, console>>

\* while current_ctx <= config.max_ctx
WhileTest ==
    /\ pc = "while"
    /\ (current_ctx <= config.max_ctx) => steps < MaxSteps
    /\ IF current_ctx <= config.max_ctx
       THEN pc' = "unload" /\ steps' = steps + 1
       ELSE pc' = "for" /\ steps' = steps
    /\ UNCHANGED <<config, system, mi, current_ctx, data, sample, logread, csv, trace, console>>

\* unload_model: the sleep is inside the try, after the post
UnloadEvents(model, ctx, ok) ==
    IF ok THEN << Event("unload", model, ctx, "ok"), Event("sleep_1.5", model, ctx, "") >>
    ELSE << Event("unload", model, ctx, "error") >>

Unload ==
    /\ pc = "unload"
    /\ \E ok \in BOOLEAN : trace' = trace \o UnloadEvents(mi, current_ctx, ok)
    /\ pc' = "preload"
    /\ UNCHANGED <<config, system, mi, current_ctx, steps, data, sample, logread, csv, console>>

\* preload_model: the answer and any exception are ignored
Preload ==
    /\ pc = "preload"
    /\ trace' = Append(trace, Event("preload", mi, current_ctx, ""))
    /\ pc' = "measure"
    /\ UNCHANGED <<config, system, mi, current_ctx, steps, data, sample, logread, csv, console>>

\* what is printed after "if should_stop:"
StopMessages(reason, ctx, cfg) ==
    LET suggestion == ctx - cfg.step_size
    IN  << "STOP: " \o reason,
           IF suggestion < cfg.start_ctx THEN "Model unsuitable for criteria."
           ELSE "Optimal Context ca.: " \o ToString(suggestion) >>

\* variant: a step that met a stop criterion is followed by another iteration
NextAfterBreak_StopContinues(kind) == IF kind = "stop" THEN "while" ELSE "for"

\* variant: a timed-out step is tried again
NextAfterBreak_Retry(kind) == IF kind = "timeout" THEN "while" ELSE "for"

\* break: leave the while loop, the for loop takes the next model
NextAfterBreak(kind) == "for"

\* the try block of one iteration: the measure request, and on a 200 answer
\* the metrics, the telemetry, the stop criteria, the CSV row and the
\* decision to stop or to go on with the next context size
MeasureStep(resp, log) ==
    /\ pc = "measure"
    /\ IF resp.kind = "200"
       THEN LET m == Metrics(resp.data)
                s == get_gpu_stats_from_logs(config, log)
                v == Evaluate(config, system, current_ctx, m, s)
            IN  /\ data' = resp.data
                /\ sample' = s
                /\ logread' = LogRead(config, log)
                /\ csv' = Append(csv, Row(config.selected_models[mi], current_ctx, m, s, v))
                /\ IF v.should_stop
                   THEN /\ console' = console \o StopMessages(v.stop_reason, current_ctx, config)
                        /\ trace' = Append(trace, Event("measure", mi, current_ctx, "stop"))
                        /\ pc' = NextAfterBreak("stop")
                        /\ UNCHANGED current_ctx
                   ELSE /\ current_ctx' = current_ctx + config.step_size
                        /\ trace' = trace \o << Event("measure", mi, current_ctx, "continue"),
                                                Event("sleep_1", mi, current_ctx, "") >>
                        /\ pc' = "while"
                        /\ UNCHANGED console
       ELSE /\ console' = Append(console,
                                 IF resp.kind = "http_error" THEN "HTTP Error"
                                 ELSE "Crash/Timeout")
            /\ trace' = Append(trace, Event("measure", mi, current_ctx, resp.kind))
            /\ pc' = NextAfterBreak(resp.kind)
            /\ UNCHANGED <<current_ctx, data, sample, logread, csv>>
    /\ UNCHANGED <<config, system, mi, steps>>

Measure == \E resp \in Responses(current_ctx), log \in Logs : MeasureStep(resp, log)

Next ==
    \/ SetupExit
    \/ SetupBenchmark
    \/ ForModel
    \/ WhileTest
    \/ Unload
    \/ Preload
    \/ Measure

Spec == Init /\ [][Next]_vars

(***************************************************************************)
(* The stop criteria on their own: one measured step from every            *)
(* combination of thresholds, log mode, platform, answer and log source    *)
(***************************************************************************)
EvalLimits ==
    { Limits(gpu, ram, vram, tps, dur) :
        gpu \in {0, 500, 900}, ram \in {320, 9990}, vram \in {100, 240, 9990},
        tps \in {0, 50}, dur \in {600, 99990} }

\* sweep parameters of the evaluated step (target 1000)
EvalConfigs ==
    { [selected_models |-> <<"m">>, log_mode |-> mode,
       start_ctx |-> 1000, max_ctx |-> 2000, step_size |-> 1000,
       min_gpu_percent |-> lim.min_gpu_percent,
       max_sys_ram_gb |-> lim.max_sys_ram_gb,
       max_vram_budget_gb |-> lim.max_vram_budget_gb,
       min_eval_tps |-> lim.min_eval_tps,
       max_duration_seconds |-> lim.max_duration_seconds] :
        mode \in LogModes, lim \in EvalLimits }

WideResponses(ctx) ==
    { Resp("200", Data(td, 20, ed, pec, 10)) :
        td \in {20, 700}, ed \in {0, 10, 100},
        pec \in {0, (ctx * 9) \div 10, ((ctx * 99) \div 100) - 1, (ctx * 99) \div 100, ctx} }
    \cup { Resp("http_error", EmptyData), Resp("timeout", EmptyData),
           Resp("connection_error", EmptyData), Resp("bad_json", EmptyData) }

WideLogs ==
    { Log(FALSE, << >>), Log(FALSE, << RunnerLine(<<"8",".","0">>, <<"8",".","0">>) >>),
      Log(TRUE, << >>), Log(TRUE, << OtherLine >>),
      Log(TRUE, << RunnerLine(<<"8",".","0">>, <<"8",".","0">>), OtherLine >>),
      Log(TRUE, << RunnerLine(<<"8",".","0">>, <<"8",".","0">>),
                   RunnerLine(<<"1","2",".","0">>, <<"1","2",".","0">>) >>),
      Log(TRUE, << RunnerLine(<<"1","0",".","0">>, <<"5",".","0">>) >>),
      Log(TRUE, << RunnerLine(<<"1","0",".","0">>, <<"8",".","5">>) >>),
      Log(TRUE, << RunnerLine(<<"4","0",".","0">>, <<"4",".","0">>) >>),
      Log(TRUE, << RunnerLine(<<"4","8",".","0">>, <<"1","2",".","0">>) >>),
      Log(TRUE, << RunnerLine(<<"2","6">>, <<"2","6">>) >>),
      Log(TRUE, << RunnerLine(<<"1","0",".","0">>, <<"0",".","0">>) >>),
      Log(TRUE, << RunnerLine(<<"0",".","0">>, <<"5",".","0">>) >>),
      Log(TRUE, << RunnerLine(<<"8",".","0">>, <<"8",".","0">>),
                   RunnerLine(<<"1",".","2",".","3">>, <<"1",".","0">>) >>) }

\* a first iteration about to issue its measure request
InitEval ==
    /\ pc = "measure"
    /\ config \in EvalConfigs
    /\ system \in Systems
    /\ mi = 1
    /\ current_ctx = config.start_ctx
    /\ steps = 1
    /\ data = EmptyData
    /\ sample = ZeroSample
    /\ logread = NotRead
    /\ csv = << >>
    /\ trace = UnloadEvents(1, config.start_ctx, TRUE)
                 \o << Event("preload", 1, config.start_ctx, "") >>
    /\ console = << >>

MeasureWide == \E resp \in WideResponses(current_ctx), log \in WideLogs : MeasureStep(resp, log)

NextEval == MeasureWide

SpecEval == InitEval /\ [][NextEval]_vars

(***************************************************************************)
(* The telemetry reader on its own: one measured step, answered within all *)
(* thresholds, over every window of at most MaxLines log lines             *)
(***************************************************************************)
LineAlphabet ==
    { OtherLine,
      RunnerLine(<<"8",".","0">>, <<"8",".","0">>),
      RunnerLine(<<"1","0",".","0">>, <<"5",".","0">>),
      RunnerLine(<<"1","2",".","0">>, <<"1","2",".","0">>),
      RunnerLine(<<"0",".","0">>, <<"5",".","0">>),
      RunnerLine(<<"1",".","2",".","3">>, <<"1",".","0">>) }

Windows == UNION { [1..n -> LineAlphabet] : n \in 0..MaxLines }

TelemetryLogs == { Log(readable, w) : readable \in BOOLEAN, w \in Windows }

TelemetryConfigs ==
    { [selected_models |-> <<"m">>, log_mode |-> mode,
       start_ctx |-> 1000, max_ctx |-> 2000, step_size |-> 1000,
       min_gpu_percent |-> 0, max_sys_ram_gb |-> 9990, max_vram_budget_gb |-> 100,
       min_eval_tps |-> 0, max_duration_seconds |-> 99990] : mode \in LogModes }

InitTelemetry ==
    /\ pc = "measure"
    /\ config \in TelemetryConfigs
    /\ system \in Systems
    /\ mi = 1
    /\ current_ctx = config.start_ctx
    /\ steps = 1
    /\ data = EmptyData
    /\ sample = ZeroSample
    /\ logread = NotRead
    /\ csv = << >>
    /\ trace = UnloadEvents(1, config.start_ctx, TRUE)
                 \o << Event("preload", 1, config.start_ctx, "") >>
    /\ console = << >>

MeasureTelemetry ==
    \E log \in TelemetryLogs : MeasureStep(Resp("200", GoodData(current_ctx)), log)

NextTelemetry == MeasureTelemetry

SpecTelemetry == InitTelemetry /\ [][NextTelemetry]_vars

(***************************************************************************)
(* Properties                                                              *)
(***************************************************************************)
IsMeasure(e) == e.op = "measure"

MeasureEvents == SelectSeq(trace, IsMeasure)

\* a measure request after which the sweep of its model was left
EndsSweep(e) == e.op = "measure" /\ e.result # "continue"

LastRow(rows) == rows[Len(rows)]

TruncatedStatus(actual) == "TRUNCATED (" \o ToString(actual) \o ")"

CriterionStatuses(actual) ==
    {TruncatedStatus(actual), "FAIL_GPU_%", "FAIL_VRAM_BUDGET", "FAIL_RAM",
     "FAIL_SPEED", "FAIL_TIME"}

\* C1: within one model's sweep the measured targets start at start_ctx and
\* each next target is the previous one plus step_size, strictly larger.
C1_TargetsIncreaseByStep ==
    LET M == MeasureEvents
    IN  \A i \in 1..Len(M) :
          IF i = 1 \/ M[i - 1].model # M[i].model
          THEN M[i].ctx = config.start_ctx
          ELSE M[i].ctx = M[i - 1].ctx + config.step_size /\ M[i].ctx > M[i - 1].ctx

\* C2: every issued measure request has its row: per model and target, as
\* many rows in the file as measure requests, whatever the answer was.
C2_RowForEveryAttemptedStep ==
    \A k \in 1..Len(config.selected_models) :
      \A c \in {trace[i].ctx : i \in DOMAIN trace} :
        Cardinality({i \in DOMAIN trace : IsMeasure(trace[i]) /\ trace[i].model = k
                                           /\ trace[i].ctx = c})
          = Cardinality({j \in DOMAIN csv : csv[j].Model = config.selected_models[k]
                                             /\ csv[j].Target_Ctx = c})

\* C3: the recorded status and stop reason are those of the first violated
\* criterion in the order truncation, GPU floor, VRAM budget, RAM ceiling,
\* throughput floor, duration ceiling; OK exactly when none is violated.
\* (data and sample are those of the step that wrote the last row.)
C3_PriorityOrder ==
    csv # << >> =>
        LET row == LastRow(csv)
            trunc == 100 * data.prompt_eval_count < 99 * row.Target_Ctx
            suppressed == config.log_mode = "none"
                            \/ (system = "Darwin" /\ sample.percent.n = 0)
            gpu == ~suppressed /\ sample.percent.n
                                    < (config.min_gpu_percent - 1) * sample.percent.d
            vram == sample.vram > config.max_vram_budget_gb
            ram == sample.size - sample.vram > config.max_sys_ram_gb
            speed == IF data.eval_duration = 0
                     THEN 10 * data.eval_count < config.min_eval_tps
                     ELSE 100 * data.eval_count < config.min_eval_tps * data.eval_duration
            time == data.total_duration > config.max_duration_seconds
        IN  /\ trunc => /\ row.Status = TruncatedStatus(data.prompt_eval_count)
                        /\ row.Stop_Reason = "Context Limit Reached"
            /\ (~trunc /\ gpu) => row.Status = "FAIL_GPU_%"
            /\ (~trunc /\ ~gpu /\ vram) => row.Status = "FAIL_VRAM_BUDGET"
            /\ (~trunc /\ ~gpu /\ ~vram /\ ram) => row.Status = "FAIL_RAM"
            /\ (~trunc /\ ~gpu /\ ~vram /\ ~ram /\ speed) => row.Status = "FAIL_SPEED"
            /\ (~trunc /\ ~gpu /\ ~vram /\ ~ram /\ ~speed /\ time)
                  => row.Status = "FAIL_TIME"
            /\ row.Status = "OK" <=> ~(trunc \/ gpu \/ vram \/ ram \/ speed \/ time)
            /\ row.Stop_Reason = "" <=> row.Status = "OK"

\* a truncated step that also breaks the GPU floor, the VRAM budget, the
\* throughput floor and the duration ceiling
C3_Witness ==
    /\ csv # << >>
    /\ LastRow(csv).Status = "TRUNCATED (900)"
    /\ config.log_mode = "docker" /\ system = "Linux"
    /\ config.min_gpu_percent = 900 /\ sample.size = 480 /\ sample.vram = 120
    /\ config.max_vram_budget_gb = 100 /\ config.max_sys_ram_gb = 320
    /\ config.min_eval_tps = 50 /\ data.eval_duration = 100
    /\ config.max_duration_seconds = 600 /\ data.total_duration = 700

\* C4: a measure request answered with a non-success HTTP status has a row
\* whose status is none of OK and the six criterion statuses, and no later
\* request is issued for that model.
C4_HttpFailureRecordedAndHalts ==
    \A i \in DOMAIN trace :
      (IsMeasure(trace[i]) /\ trace[i].result = "http_error") =>
        /\ \E j \in DOMAIN csv :
             /\ csv[j].Model = config.selected_models[trace[i].model]
             /\ csv[j].Target_Ctx = trace[i].ctx
             /\ csv[j].Status \notin ({"OK"} \cup CriterionStatuses(csv[j].Actual_Ctx))
        /\ \A j \in DOMAIN trace : j > i => trace[j].model # trace[i].model

\* C5: once a measure request ended a model's sweep (terminal verdict,
\* non-success status, timeout, transport error) no further request is
\* issued for that model; the next request, if any, is the unload of the next
\* model of the list at start_ctx; and when the run is over every selected
\* model has been measured.
C5_StopIsFinalAndLocal ==
    /\ \A i \in DOMAIN trace :
         EndsSweep(trace[i]) =>
           /\ \A j \in DOMAIN trace : j > i => trace[j].model # trace[i].model
           /\ i < Len(trace) =>
                trace[i + 1] \in { Event("unload", trace[i].model + 1, config.start_ctx, r) :
                                     r \in {"ok", "error"} }
    /\ \A i \in DOMAIN trace :
         (i < Len(trace) /\ trace[i + 1].model # trace[i].model) =>
           trace[i + 1].model = trace[i].model + 1
    /\ (pc = "done" /\ config.start_ctx <= config.max_ctx) =>
         \A k \in 1..Len(config.selected_models) :
           \E i \in DOMAIN trace : IsMeasure(trace[i]) /\ trace[i].model = k
                                    /\ trace[i].ctx = config.start_ctx

\* the first model timed out at its first step, the second was swept, the
\* run is over
C5_Witness ==
    /\ pc = "done"
    /\ Len(config.selected_models) = 2
    /\ \E i, j \in DOMAIN trace :
         /\ i < j
         /\ trace[i] = Event("measure", 1, config.start_ctx, "timeout")
         /\ trace[j] = Event("measure", 2, config.start_ctx, "stop")

\* C6: the sweep never starts with a step size that is not positive.
C6_StepSizeValidated == pc \notin {"setup", "exit"} => config.step_size > 0

\* C7: a step measured with the zero telemetry sample is not stopped by the
\* GPU floor, the VRAM budget or the RAM ceiling.
C7_ZeroSampleNoFailure ==
    (csv # << >> /\ sample = ZeroSample) =>
        LastRow(csv).Status \notin {"FAIL_GPU_%", "FAIL_VRAM_BUDGET", "FAIL_RAM"}

\* C8: with log mode "none", or with a utilization of exactly 0 on Darwin,
\* the step is never a GPU-floor failure, whatever min_gpu_percent is, and a
\* step that is not truncated gets the verdict of the VRAM, RAM, throughput
\* and duration criteria.
C8_GpuFloorSuppressed ==
    (csv # << >> /\ (config.log_mode = "none"
                       \/ (system = "Darwin" /\ sample.percent.n = 0))) =>
        LET row == LastRow(csv)
            trunc == 100 * data.prompt_eval_count < 99 * row.Target_Ctx
            vram == sample.vram > config.max_vram_budget_gb
            ram == sample.size - sample.vram > config.max_sys_ram_gb
            speed == IF data.eval_duration = 0
                     THEN 10 * data.eval_count < config.min_eval_tps
                     ELSE 100 * data.eval_count < config.min_eval_tps * data.eval_duration
            time == data.total_duration > config.max_duration_seconds
        IN  /\ row.Status # "FAIL_GPU_%"
            /\ ~trunc =>
                 row.Status = IF vram THEN "FAIL_VRAM_BUDGET"
                              ELSE IF ram THEN "FAIL_RAM"
                              ELSE IF speed THEN "FAIL_SPEED"
                              ELSE IF time THEN "FAIL_TIME"
                              ELSE "OK"

\* Darwin, a readable log reporting vram 0 of size 10 (0 %), a floor of 90 %:
\* the step is stopped by the throughput floor instead
C8_Witness ==
    /\ csv # << >>
    /\ system = "Darwin" /\ config.log_mode = "docker"
    /\ config.min_gpu_percent = 900
    /\ sample.size = 100 /\ sample.vram = 0
    /\ LastRow(csv).Status = "FAIL_SPEED"

\* C9: every measure request directly follows the preload of the same model
\* and context size, which directly follows the unload of that model (and
\* its settling delay); an unload is followed by that preload and a preload
\* by that measure.
C9_UnloadPreloadMeasure ==
    \A i \in DOMAIN trace :
      LET e == trace[i]
      IN  /\ IsMeasure(e) =>
               /\ i >= 3
               /\ trace[i - 1] = Event("preload", e.model, e.ctx, "")
               /\ \/ trace[i - 2] = Event("unload", e.model, e.ctx, "error")
                  \/ /\ i >= 4
                     /\ trace[i - 2] = Event("sleep_1.5", e.model, e.ctx, "")
                     /\ trace[i - 3] = Event("unload", e.model, e.ctx, "ok")
          /\ (e.op = "preload" /\ i < Len(trace)) =>
               /\ IsMeasure(trace[i + 1])
               /\ trace[i + 1].model = e.model /\ trace[i + 1].ctx = e.ctx
          /\ (e.op = "unload" /\ e.result = "error" /\ i < Len(trace)) =>
               trace[i + 1] = Event("preload", e.model, e.ctx, "")
          /\ (e.op = "sleep_1.5" /\ i < Len(trace)) =>
               trace[i + 1] = Event("preload", e.model, e.ctx, "")

\* a second iteration after a step that went on, measured after a failed
\* unload request
C9_Witness ==
    \E i \in DOMAIN trace :
      /\ IsMeasure(trace[i]) /\ trace[i].ctx = 8192 /\ trace[i].model = 1
      /\ i >= 3 /\ trace[i - 2].op = "unload" /\ trace[i - 2].result = "error"
      /\ \E j \in 1..(i - 1) : trace[j] = Event("measure", 1, 4096, "continue")

LimitsOf(cfg) ==
    Limits(cfg.min_gpu_percent, cfg.max_sys_ram_gb, cfg.max_vram_budget_gb,
           cfg.min_eval_tps, cfg.max_duration_seconds)

\* the measure requests that were answered with a 200 and a JSON body
AnsweredEvents == SelectSeq(trace, LAMBDA e : IsMeasure(e) /\ e.result \in {"continue", "stop"})

\* the VRAM sweep, for a given failure status and a given reason text of the
\* case vram = 12, budget = 10
VramSweep(failStatus, reason12) ==
    (pc \notin {"setup", "exit"} /\ LimitsOf(config) = VramOnlyLimits) =>
      /\ Len(csv) = Len(AnsweredEvents)
      /\ \A j \in DOMAIN csv :
           csv[j].Status # TruncatedStatus(csv[j].Actual_Ctx) =>
             /\ csv[j].Status \in {"OK", failStatus}
             /\ csv[j].Status = "OK" <=> AnsweredEvents[j].result = "continue"
             /\ csv[j].Status = failStatus =>
                  \A k \in DOMAIN csv : k > j => csv[k].Model # csv[j].Model
      /\ (csv # << >> /\ 100 * data.prompt_eval_count >= 99 * LastRow(csv).Target_Ctx) =>
           /\ sample.vram <= config.max_vram_budget_gb => LastRow(csv).Status = "OK"
           /\ sample.vram > config.max_vram_budget_gb => LastRow(csv).Status = failStatus
           /\ sample.vram = 120 => LastRow(csv).Stop_Reason = reason12
      /\ (/\ config.selected_models = <<"m">>
          /\ config.start_ctx = 4096 /\ config.max_ctx = 8192 /\ config.step_size = 4096
          /\ Len(csv) >= 2
          /\ csv[1].Actual_Ctx = 4096 /\ csv[1].VRAM_Used_GB = "8.00"
          /\ csv[2].Actual_Ctx = 8192 /\ csv[2].VRAM_Used_GB = "12.00") =>
           /\ Len(csv) = 2
           /\ csv[1].Status = "OK" /\ csv[1].Stop_Reason = ""
           /\ csv[2].Status = failStatus /\ csv[2].Stop_Reason = reason12

\* C10 as stated: with all thresholds permissive except the VRAM budget and
\* no truncation, steps within the budget are OK and go on, the first step
\* over it is FAIL_VRAM with reason "VRAM 12.0GiB > 10.0GiB" and stops the
\* sweep, and there are as many rows as answered steps (two in the scenario).
C10_VramSweepAsStated == VramSweep("FAIL_VRAM", "VRAM 12.0GiB > 10.0GiB")

\* C10 (amended): the same, with the status FAIL_VRAM_BUDGET and the reason
\* "VRAM 12.0GB > Budget 10.0GB".
C10_VramSweep == VramSweep("FAIL_VRAM_BUDGET", "VRAM 12.0GB > Budget 10.0GB")

\* the scenario: model m, 4096 .. 8192 by 4096, vram 8 then 12, budget 10
C10_Witness ==
    /\ pc = "done"
    /\ LimitsOf(config) = VramOnlyLimits
    /\ config.selected_models = <<"m">>
    /\ config.start_ctx = 4096 /\ config.max_ctx = 8192 /\ config.step_size = 4096
    /\ Len(csv) = 2
    /\ csv[1].Target_Ctx = 4096 /\ csv[1].VRAM_Used_GB = "8.00" /\ csv[1].Status = "OK"
    /\ csv[2].Target_Ctx = 8192 /\ csv[2].VRAM_Used_GB = "12.00"
    /\ csv[2].Status = "FAIL_VRAM_BUDGET"
    /\ csv[2].Stop_Reason = "VRAM 12.0GB > Budget 10.0GB"

\* the indices of the lines of a window that match the pattern
Matching(w) == {i \in DOMAIN w : w[i].match}

LastMatching(w) == CHOOSE i \in Matching(w) : \A k \in Matching(w) : k <= i

\* the latest-wins rule read from a window that was read; whenUnparsable says
\* whether the zero sample is what a last matching line with an unparsable
\* number gives
LatestWins(whenUnparsableZero) ==
    logread.outcome = "ok" =>
        LET w == logread.lines
        IN  IF Matching(w) = {} THEN sample = ZeroSample
            ELSE LET l == w[LastMatching(w)]
                 IN  IF FloatOk(l.size) /\ FloatOk(l.vram)
                     THEN /\ sample.size = FloatTenths(l.size)
                          /\ sample.vram = FloatTenths(l.vram)
                     ELSE whenUnparsableZero /\ sample = ZeroSample

\* C11 as stated: for every window the reader returns the size and vram of
\* the last line that matches the pattern (so these are numbers), whatever
\* precedes and follows that line.
C11_LatestWinsAsStated == LatestWins(FALSE)

\* C11 (amended): the same when both numbers of the last matching line are
\* valid floats; otherwise the zero sample is returned, without falling back
\* to an earlier matching line.
C11_LatestWins == LatestWins(TRUE)

\* an older report of 8.0/8.0, then 10.0/5.0, then a line without report
C11_Witness ==
    /\ logread.outcome = "ok"
    /\ logread.lines = << RunnerLine(<<"8",".","0">>, <<"8",".","0">>),
                          RunnerLine(<<"1","0",".","0">>, <<"5",".","0">>), OtherLine >>
    /\ sample.size = 100 /\ sample.vram = 50

\* C12: the reader never raises: when the source cannot be read, when the
\* mode is "none", when no line matches or the numbers do not parse, the
\* sample is the zero sample, and the step goes on to the stop criteria and
\* its row (no crash of the step).
C12_ReaderNeverRaises ==
    pc # "measure" =>
        /\ config.log_mode = "none" => logread.outcome = "skipped"
        /\ logread.outcome \in {"failed", "skipped"} => sample = ZeroSample
        /\ (logread.outcome = "ok" /\ Matching(logread.lines) = {}) => sample = ZeroSample
        /\ (/\ logread.outcome = "ok" /\ Matching(logread.lines) # {}
            /\ ~FloatOk(logread.lines[LastMatching(logread.lines)].size))
              => sample = ZeroSample
        /\ Len(csv) = 1 /\ csv[1].Status \in {"OK", "FAIL_VRAM_BUDGET"}
        /\ console # << "Crash/Timeout" >>
        /\ trace[Len(trace)].result \notin {"timeout", "connection_error", "bad_json"}

\* the source could not be read; the step was evaluated and recorded
C12_Witness ==
    /\ logread.outcome = "failed"
    /\ sample = ZeroSample
    /\ Len(csv) = 1 /\ csv[1].Status = "OK" /\ csv[1].GPU_Percent = "0.0"

\* C15: the percentage is vram / size * 100 when size > 0 (50.0 for size 10,
\* vram 5) and 0 when size is 0, whatever vram is, or when no line matches.
C15_DerivedPercent ==
    csv # << >> =>
        /\ sample.size > 0 => sample.percent.n * sample.size = 1000 * sample.vram * sample.percent.d
        /\ (sample.size = 100 /\ sample.vram = 50) => LastRow(csv).GPU_Percent = "50.0"
        /\ sample.size = 0 => (sample.percent.n = 0 /\ LastRow(csv).GPU_Percent = "0.0")
        /\ (logread.outcome = "ok" /\ Matching(logread.lines) = {})
              => (sample.percent.n = 0 /\ LastRow(csv).GPU_Percent = "0.0")

\* the last report has size 0.0 and vram 5.0
C15_Witness ==
    /\ csv # << >>
    /\ logread.outcome = "ok" /\ Matching(logread.lines) # {}
    /\ sample.size = 0 /\ sample.vram = 50
    /\ LastRow(csv).GPU_Percent = "0.0"

\* C13: a step is recorded as truncated, with the actual context in the
\* status, exactly when 100 * actual < 99 * target; a truncated step stops
\* the sweep; 900 against 1000 is truncated, 990 against 1000 is not.
C13_TruncationThreshold ==
    csv # << >> =>
        LET row == LastRow(csv)
            actual == data.prompt_eval_count
            truncated == row.Status = TruncatedStatus(actual)
        IN  /\ truncated <=> 100 * actual < 99 * row.Target_Ctx
            /\ row.Actual_Ctx = actual
            /\ truncated => /\ row.Stop_Reason = "Context Limit Reached"
                            /\ trace[Len(trace)] = Event("measure", mi, row.Target_Ctx, "stop")
                            /\ pc = "for"
            /\ (row.Target_Ctx = 1000 /\ actual = 900) => row.Status = "TRUNCATED (900)"
            /\ (row.Target_Ctx = 1000 /\ actual = 990)
                  => /\ row.Status \in {"OK", "FAIL_GPU_%", "FAIL_VRAM_BUDGET", "FAIL_RAM",
                                        "FAIL_SPEED", "FAIL_TIME"}
                     /\ row.Stop_Reason # "Context Limit Reached"

\* 900 of 1000 tokens accepted: truncated, the sweep of the model is over
C13_Witness ==
    /\ csv # << >>
    /\ LastRow(csv).Target_Ctx = 1000 /\ data.prompt_eval_count = 900
    /\ LastRow(csv).Status = "TRUNCATED (900)"
    /\ trace[Len(trace)].result = "stop" /\ pc = "for"

\* the GPU floor of a step that is neither truncated nor suppressed: it fails
\* exactly when percent < min_gpu_percent - 0.1, and reasons85 are the stop
\* reasons allowed for percent 85 against a minimum of 90
GpuFloor(reasons85) ==
    csv # << >> =>
        LET row == LastRow(csv)
            trunc == 100 * data.prompt_eval_count < 99 * row.Target_Ctx
            suppressed == config.log_mode = "none"
                            \/ (system = "Darwin" /\ sample.percent.n = 0)
            below == sample.percent.n < (config.min_gpu_percent - 1) * sample.percent.d
        IN  /\ (~trunc /\ ~suppressed) => (row.Status = "FAIL_GPU_%" <=> below)
            /\ row.Status = "FAIL_GPU_%" => (trace[Len(trace)].result = "stop" /\ pc = "for")
            /\ (/\ ~trunc /\ ~suppressed
                /\ sample.percent.n = 850 * sample.percent.d
                /\ config.min_gpu_percent = 900)
                  => (row.Status = "FAIL_GPU_%" /\ row.Stop_Reason \in reasons85)

\* C14 as stated: ... with percent 85 and a minimum of 90 the reason
\* reports "85.0% < 90%" (alone or after the criterion's name).
C14_GpuFloorAsStated == GpuFloor({"85.0% < 90%", "GPU 85.0% < 90%"})

\* C14 (amended): when GPU checks are not suppressed and the step is not
\* truncated, the step fails exactly when percent < min_gpu_percent - 0.1;
\* with percent 85 and a minimum of 90 the reason is "GPU 85.0% < 90.0%".
C14_GpuFloor == GpuFloor({"GPU 85.0% < 90.0%"})

\* size 10.0, vram 8.5 on Linux against a minimum of 90
C14_Witness ==
    /\ csv # << >>
    /\ system = "Linux" /\ config.log_mode = "docker"
    /\ sample.size = 100 /\ sample.vram = 85 /\ config.min_gpu_percent = 900
    /\ data.prompt_eval_count = 1000
    /\ LastRow(csv).Status = "FAIL_GPU_%"
    /\ LastRow(csv).Stop_Reason = "GPU 85.0% < 90.0%"

\* C16: every preload request is issued right after the settling delay that
\* follows the unload request of the same iteration, whether that request
\* succeeded or failed.
C16_SettlingDelayAfterUnload ==
    \A i \in DOMAIN trace :
      trace[i].op = "preload" =>
        /\ i >= 3
        /\ trace[i - 1] = Event("sleep_1.5", trace[i].model, trace[i].ctx, "")
        /\ trace[i - 2].op = "unload"
        /\ trace[i - 2].model = trace[i].model /\ trace[i - 2].ctx = trace[i].ctx

\* C17: in every row the stop reason is empty exactly when the status is OK,
\* and every row that precedes another row of the same model is OK with an
\* empty stop reason.
C17_OnlyLastRowNotOk ==
    /\ \A j \in DOMAIN csv : csv[j].Stop_Reason = "" <=> csv[j].Status = "OK"
    /\ \A j, k \in DOMAIN csv :
         (j < k /\ csv[j].Model = csv[k].Model) =>
           (csv[j].Status = "OK" /\ csv[j].Stop_Reason = "")

\* two rows of one model: 4096 recorded OK, 8192 over the VRAM budget
C17_Witness ==
    \E j, k \in DOMAIN csv :
      /\ j < k /\ csv[j].Model = csv[k].Model
      /\ csv[j].Status = "OK" /\ csv[j].Target_Ctx = 4096
      /\ csv[k].Status = "FAIL_VRAM_BUDGET" /\ csv[k].Target_Ctx = 8192
      /\ csv[k].Stop_Reason # ""

\* floor((max_ctx - start_ctx) / step_size) + 1; a step size of 0 has no
\* quotient, and then no number of steps is within the bound
StepBound(cfg) ==
    LET span == cfg.max_ctx - cfg.start_ctx
    IN  IF cfg.step_size > 0 THEN (span \div cfg.step_size) + 1
        ELSE IF cfg.step_size < 0 THEN 1 - ((span + (-cfg.step_size) - 1) \div (-cfg.step_size))
        ELSE 0

\* C18: for every accepted configuration the sweep of each model makes at
\* most floor((max_ctx - start_ctx) / step_size) + 1 steps.
C18_SweepStepsBounded ==
    pc \notin {"setup", "exit"} =>
      \A k \in 1..Len(config.selected_models) :
        Cardinality({i \in DOMAIN trace : IsMeasure(trace[i]) /\ trace[i].model = k})
          <= StepBound(config)

\* C19: every request is issued for a target within start_ctx..max_ctx, and
\* with start_ctx > max_ctx nothing is requested and no row is written.
C19_TargetsWithinRange ==
    pc \notin {"setup", "exit"} =>
      /\ \A i \in DOMAIN trace :
           trace[i].op \in {"unload", "preload", "measure"} =>
             (config.start_ctx <= trace[i].ctx /\ trace[i].ctx <= config.max_ctx)
      /\ config.start_ctx > config.max_ctx => (trace = << >> /\ csv = << >>)

\* C20: right after a sweep stopped on a terminal verdict, the last message
\* names the largest target recorded OK for that model, or says the model
\* is unsuitable exactly when none of its steps was recorded OK.
C20_OptimalIsLargestOk ==
    (trace # << >> /\ trace[Len(trace)].op = "measure" /\ trace[Len(trace)].result = "stop") =>
      LET k == trace[Len(trace)].model
          ok == {csv[j].Target_Ctx : j \in {r \in DOMAIN csv :
                      csv[r].Model = config.selected_models[k] /\ csv[r].Status = "OK"}}
          said == console[Len(console)]
      IN  /\ console # << >>
          /\ (said = "Model unsuitable for criteria.") <=> (ok = {})
          /\ ok # {} => said = "Optimal Context ca.: "
                                 \o ToString(CHOOSE c \in ok : \A o \in ok : o <= c)

====
